---- MODULE Spec2Model ----
(***************************************************************************)
(* pycomposer: RBMAnnealing (rbm_annealing.py) and BarNoiseSampler         *)
(* (noisesampler/bar_noise_sampler.py).                                    *)
(*                                                                         *)
(* Times, durations, velocities and pitches are floats in the program.     *)
(* Here a float is a record: a finite value (an integer number of time     *)
(* units), NaN, +inf or -inf, with IEEE arithmetic on the three special    *)
(* values.  A normalised feature is a fraction n/d, or NaN.                *)
(***************************************************************************)
EXTENDS Integers, Sequences, FiniteSets, TLC

VARIABLES
    \* RBMAnnealing
    cycle_len, annealing_cycles, midi_df, pitch_range, observed_n,
    inferenced_arr, predicted_log_arr, generated_df_list,
    params_arr, gen_list, pc, cyc, last, gen_count,
    \* BarNoiseSampler
    bar_cfg, bar_midi_df_list, program_list, channel, sampled_arr,
    bar_pc, bar_batch, bar_i, bar_draw, bar_last,
    \* inputs and results of the pure functions
    pre_in, pre_out, gen_in, gen_out

composerVars == <<cycle_len, annealing_cycles, midi_df, pitch_range, observed_n,
                  inferenced_arr, predicted_log_arr, generated_df_list,
                  params_arr, gen_list, pc, cyc, last, gen_count>>
barVars == <<bar_cfg, bar_midi_df_list, program_list, channel, sampled_arr,
             bar_pc, bar_batch, bar_i, bar_draw, bar_last>>
pureVars == <<pre_in, pre_out, gen_in, gen_out>>
vars == <<composerVars, barVars, pureVars>>

----------------------------------------------------------------------------
(* Bounds *)

MaxPreRows == 3      \* rows of a table given to the preprocessor alone
MaxCycleLen == 2     \* its cycle_len is drawn from 1..MaxCycleLen
MaxGenRows == 2      \* rows of a table given to the generator alone
MaxRows == 3         \* rows of a table given to learn
CycleLen == 1        \* cycle_len of the composer
AnnealingCycles == 2 \* annealing_cycles of the composer
MaxGenerate == 3     \* candidate generations in one behaviour
MaxScore == 1        \* scores are drawn from 0..MaxScore

----------------------------------------------------------------------------
(* Floats *)

Fin(n) == [k |-> "fin", v |-> n]
NaN == [k |-> "nan", v |-> 0]
PosInf == [k |-> "inf", v |-> 1]
NegInf == [k |-> "inf", v |-> -1]

IsNaN(a) == a.k = "nan"

Add(a, b) ==
    IF a.k = "nan" \/ b.k = "nan" THEN NaN
    ELSE IF a.k = "inf" /\ b.k = "inf" THEN (IF a.v = b.v THEN a ELSE NaN)
    ELSE IF a.k = "inf" THEN a
    ELSE IF b.k = "inf" THEN b
    ELSE Fin(a.v + b.v)

Neg(a) == IF a.k = "nan" THEN NaN ELSE [k |-> a.k, v |-> 0 - a.v]

Sub(a, b) == Add(a, Neg(b))

\* a < b; every comparison with NaN is false
Lt(a, b) ==
    IF a.k = "nan" \/ b.k = "nan" THEN FALSE
    ELSE IF a.k = "inf" THEN a.v = -1 /\ b # NegInf
    ELSE IF b.k = "inf" THEN b.v = 1
    ELSE a.v < b.v

Mod12(a) == IF a.k = "fin" THEN Fin(a.v % 12) ELSE NaN

\* Series.min() / Series.max(): missing values are skipped, NaN when none is left
ColMin(S) ==
    LET T == {x \in S : ~IsNaN(x)}
    IN IF T = {} THEN NaN ELSE CHOOSE m \in T : \A x \in T : ~Lt(x, m)

ColMax(S) ==
    LET T == {x \in S : ~IsNaN(x)}
    IN IF T = {} THEN NaN ELSE CHOOSE m \in T : \A x \in T : ~Lt(m, x)

Column(df, f) == {df[i][f] : i \in 1..Len(df)}

\* a normalised value: the fraction n/d, NaN or an infinity
Frac(n, d) == [k |-> "fin", n |-> n, d |-> d]
QNaN == [k |-> "nan", n |-> 0, d |-> 1]
QInf == [k |-> "inf", n |-> 1, d |-> 1]

\* a / b for a, b >= 0 as the subtractions of the normalisation produce them
Div(a, b) ==
    IF a.k = "nan" \/ b.k = "nan" THEN QNaN
    ELSE IF a.k = "inf" THEN (IF b.k = "inf" THEN QNaN ELSE QInf)
    ELSE IF b.k = "inf" THEN Frac(0, 1)
    ELSE IF b.v = 0 THEN (IF a.v = 0 THEN QNaN ELSE QInf)
    ELSE Frac(a.v, b.v)

InUnitInterval(q) == q.k = "fin" /\ q.d > 0 /\ 0 <= q.n /\ q.n <= q.d

----------------------------------------------------------------------------
(* RBMAnnealing.__preprocess *)

IsNaRow(r) == \E f \in DOMAIN r : IsNaN(r[f])

dropna(df) == SelectSeq(df, LAMBDA r : ~IsNaRow(r))

\* x / max in the place of (x - min) / (max - min)
normalize_by_max(x, col) == Div(x, ColMax(col))

\* (x - min) / (max - min) over one column
normalize(x, col) == Div(Sub(x, ColMin(col)), Sub(ColMax(col), ColMin(col)))

\* the four features of row i of df, each normalised over its column
features(df, i) ==
    << normalize(df[i].pitch, Column(df, "pitch")),
       normalize(df[i].start, Column(df, "start")),
       normalize(df[i].duration, Column(df, "duration")),
       normalize(df[i].velocity, Column(df, "velocity")) >>

\* np.empty((rows - cycle_len, cycle_len, 4)) raises ValueError on a negative
\* dimension; otherwise window i-cycle_len holds rows i-cycle_len .. i-1
preprocess(midi_df_, L) ==
    LET df == dropna(midi_df_)
        n == Len(df)
    IN IF n - L < 0
       THEN [err |-> "ValueError: negative dimensions", arr |-> << >>]
       ELSE [err |-> "none",
             arr |-> [w \in 1..(n - L) |-> [j \in 1..L |-> features(df, w + j - 1)]]]

----------------------------------------------------------------------------
(* The preprocessor on its own *)

Row(p, s, d, v) ==
    [pitch |-> p, start |-> s, duration |-> d, end |-> Add(s, d), velocity |-> v]

\* the rows of the tables the preprocessor is run on: finite values with the
\* velocity following pitch and duration, and one row with a missing start
PreRows ==
    {Row(Fin(p), Fin(s), Fin(d), Fin(1 + ((p + d) % 2))) :
        p \in {0, 1}, s \in {0, 1, 2}, d \in {1, 2}}
    \cup {Row(Fin(0), NaN, Fin(1), Fin(1))}

PreTables == UNION {[1..n -> PreRows] : n \in 0..MaxPreRows}

ComposerNew(L, cycles) ==
    /\ cycle_len = L
    /\ annealing_cycles = cycles
    /\ midi_df = << >>
    /\ pitch_range = <<NaN, NaN>>
    /\ observed_n = 0
    /\ inferenced_arr = [set |-> FALSE, n |-> 0]
    /\ predicted_log_arr = << >>
    /\ generated_df_list = << >>
    /\ params_arr = << >>
    /\ gen_list = << >>
    /\ pc = "idle"
    /\ cyc = 0
    /\ last = [op |-> "init", err |-> "none", rows |-> 0, opt |-> 0]
    /\ gen_count = 0

ComposerIdle == ComposerNew(1, 1)

NoDraw == [batch |-> 0, i |-> 0, key |-> 0, row |-> 0, short |-> FALSE]

BarConfig(b, s, tf, lo, hi) ==
    [batch_size |-> b, seq_len |-> s, time_fraction |-> tf, min_pitch |-> lo, max_pitch |-> hi]

\* BarNoiseSampler.__init__; order is the order in which list(set(...)) lists
\* the programs
bar_init(midi_df_list, cfg, order) ==
    /\ bar_cfg = cfg
    /\ bar_midi_df_list = midi_df_list
    /\ program_list = order
    /\ channel = Len(order)
    /\ sampled_arr = << >>
    /\ bar_pc = "idle"
    /\ bar_batch = 0
    /\ bar_i = 0
    /\ bar_draw = NoDraw
    /\ bar_last = [op |-> "init", err |-> "none"]

BarIdle == bar_init(<< >>, BarConfig(1, 1, 1, 0, 1), << >>)

NoPre == [table |-> << >>, cycle_len |-> 1]
NoOut == [called |-> FALSE, err |-> "none", arr |-> << >>]
NoGenIn == [table |-> << >>, sj |-> << >>, dj |-> << >>]
NoGenOut == [called |-> FALSE, err |-> "none", df |-> << >>, ref |-> << >>]

InitPre ==
    /\ ComposerIdle
    /\ BarIdle
    /\ pre_in \in [table : PreTables, cycle_len : 1..MaxCycleLen]
    /\ pre_out = NoOut
    /\ gen_in = NoGenIn
    /\ gen_out = NoGenOut

PreprocessCall ==
    /\ ~pre_out.called
    /\ LET r == preprocess(pre_in.table, pre_in.cycle_len)
       IN pre_out' = [called |-> TRUE, err |-> r.err, arr |-> r.arr]
    /\ UNCHANGED <<pre_in, gen_in, gen_out, composerVars, barVars>>

NextPre == PreprocessCall

SpecPre == InitPre /\ [][NextPre]_vars


NoMissing(df) == \A i \in 1..Len(df) : ~IsNaRow(df[i])

----------------------------------------------------------------------------
(* RBMAnnealing.__generate *)

\* sort_values(by = ["start", "end"]): stable, missing keys last
KeyLt(x, y) == IF IsNaN(x) THEN FALSE ELSE IF IsNaN(y) THEN TRUE ELSE Lt(x, y)

RowLt(a, b) == KeyLt(a.start, b.start) \/ (a.start = b.start /\ KeyLt(a.end, b.end))

RECURSIVE InsertRow(_, _)
InsertRow(r, s) ==
    IF s = << >> THEN <<r>>
    ELSE IF RowLt(r, Head(s)) THEN <<r>> \o s
    ELSE <<Head(s)>> \o InsertRow(r, Tail(s))

RECURSIVE sort_values(_)
sort_values(df) ==
    IF df = << >> THEN << >>
    ELSE InsertRow(df[Len(df)], sort_values(SubSeq(df, 1, Len(df) - 1)))

\* duration_arr[duration_arr < 0] = duration_arr[duration_arr > 0].min()
clamp_duration(d, minpos) == IF Lt(d, Fin(0)) THEN minpos ELSE d

\* midi_df["start"].values and midi_df["duration"].values are views of the
\* frame's own data, so the two "+=" and the clamp write into midi_df itself.
\* sj, dj: the two jitter samples; vel: the velocity sample; pit: the pitches
\* of the twelve-tone generator.  ref is midi_df as the call leaves it.
rbm_generate(df, sj, dj, vel, pit) ==
    LET n == Len(df)
        start_arr == [i \in 1..n |-> Add(df[i].start, Fin(sj[i]))]
        dur1 == [i \in 1..n |-> Add(df[i].duration, Fin(dj[i]))]
        pos == {dur1[i] : i \in {j \in 1..n : Lt(Fin(0), dur1[j])}}
        dur2 == [i \in 1..n |-> clamp_duration(dur1[i], ColMin(pos))]
        jittered == [i \in 1..n |-> [df[i] EXCEPT !.start = start_arr[i], !.duration = dur1[i]]]
        ref == [i \in 1..n |-> [df[i] EXCEPT !.start = start_arr[i], !.duration = dur2[i]]]
        shift == Neg(ColMin({start_arr[i] : i \in 1..n}))
        gen == [i \in 1..n |->
                 [pitch |-> Mod12(Fin(pit[i])),
                  origin_pitch |-> Fin(pit[i]),
                  start |-> Add(start_arr[i], shift),
                  duration |-> dur2[i],
                  velocity |-> Fin(vel[i]),
                  end |-> Add(Add(start_arr[i], shift), dur2[i])]]
    IN IF pos = {}
       THEN [err |-> "ValueError: zero-size array", df |-> << >>, ref |-> jittered]
       ELSE [err |-> "none", df |-> dropna(sort_values(gen)), ref |-> ref]

JitterSet == {-2, -1, 0, 1}

\* np.random.normal(loc = mean, scale = std).astype(int): with two or more
\* equal velocities the scale is 0 and the sample is the mean; otherwise any
\* integer (of a small set) can come out
VelocitySet == {0, 64}

velocity_samples(df) ==
    LET n == Len(df)
        idx == {i \in 1..n : ~IsNaN(df[i].velocity)}
        vs == {df[i].velocity : i \in idx}
    IN IF Cardinality(idx) >= 2 /\ Cardinality(vs) = 1 /\ (CHOOSE v \in vs : TRUE).k = "fin"
       THEN {[i \in 1..n |-> (CHOOSE v \in vs : TRUE).v]}
       ELSE [1..n -> VelocitySet]

\* TwelveToneComposer.generate(rows_num, octave)[:rows_num]: a tone row
\* transposed to the octave
DefaultOctave == 8

ToneRowStarts == <<0, 7>>

twelve_tone_generate(rows_num, octave) ==
    [c \in 1..Len(ToneRowStarts) |->
        [i \in 1..rows_num |-> 12 * octave + ((ToneRowStarts[c] + i - 1) % 12)]]

----------------------------------------------------------------------------
(* The generator on its own *)

GenRows ==
    {Row(Fin(60), s, d, Fin(64)) : s \in {Fin(0), Fin(1), NaN, NegInf}, d \in {Fin(1), Fin(2), NaN}}

GenTables == UNION {[1..n -> GenRows] : n \in 1..MaxGenRows}

InitGen ==
    /\ ComposerIdle
    /\ BarIdle
    /\ pre_in = NoPre
    /\ pre_out = NoOut
    /\ \E t \in GenTables :
         \E sj \in [1..Len(t) -> JitterSet], dj \in [1..Len(t) -> JitterSet] :
           gen_in = [table |-> t, sj |-> sj, dj |-> dj]
    /\ gen_out = NoGenOut

GenerateCall ==
    /\ ~gen_out.called
    /\ \E vel \in velocity_samples(gen_in.table) :
         \E c \in 1..Len(ToneRowStarts) :
           LET pit == twelve_tone_generate(Len(gen_in.table), DefaultOctave)[c]
               g == rbm_generate(gen_in.table, gen_in.sj, gen_in.dj, vel, pit)
           IN gen_out' = [called |-> TRUE, err |-> g.err, df |-> g.df, ref |-> g.ref]
    /\ UNCHANGED <<pre_in, pre_out, gen_in, composerVars, barVars>>

NextGen == GenerateCall

SpecGen == InitGen /\ [][NextGen]_vars


----------------------------------------------------------------------------
(* RBMAnnealing: learn, compose *)

\* the tables given to learn: n notes one time unit apart, and the same table
\* with a start of -inf in the first row, in every row, or with the first
\* velocity missing
BaseTable(n) == [i \in 1..n |-> Row(Fin(59 + i), Fin(i - 1), Fin(1 + (i % 2)), Fin(64))]

LearnTables ==
    UNION {
      { BaseTable(n),
        [i \in 1..n |-> IF i = 1 THEN Row(Fin(60), NegInf, Fin(2), Fin(64)) ELSE BaseTable(n)[i]],
        [i \in 1..n |-> Row(Fin(59 + i), NegInf, Fin(1 + (i % 2)), Fin(64))],
        [i \in 1..n |-> IF i = 1 THEN Row(Fin(60), Fin(0), Fin(2), NaN) ELSE BaseTable(n)[i]] }
      : n \in 0..MaxRows }

\* the jitter samples compose is run with, the same draw in every row: the
\* starts move one unit on, the durations one unit up or down
StartJitter(n) == {[i \in 1..n |-> 1]}

DurationJitter(n) == {[i \in 1..n |-> j] : j \in {-1, 1}}

\* the RBM (create_rbm, rbm.learn, rbm.inference): training has no failure
\* of its own, inference returns features of the shape of its input
rbm_learn(n) == "none"

rbm_inference(n) == n

Call(op, err, rows, opt) == [op |-> op, err |-> err, rows |-> rows, opt |-> opt]

Trained == inferenced_arr.set

Composed == predicted_log_arr # << >>

learn(t) ==
    /\ pc = "idle"
    /\ gen_count = 0
    /\ LET t12 == [i \in 1..Len(t) |-> [t[i] EXCEPT !.pitch = Mod12(@)]]
           r == preprocess(t12, cycle_len)
           e == IF r.err # "none" THEN r.err ELSE rbm_learn(Len(r.arr))
       IN /\ pitch_range' = <<ColMax(Column(t, "pitch")), ColMin(Column(t, "pitch"))>>
          /\ last' = Call("learn", e, Len(t), 0)
          /\ IF e # "none"
             THEN UNCHANGED <<observed_n, midi_df, inferenced_arr>>
             ELSE /\ observed_n' = Len(r.arr)
                  /\ midi_df' = t12
                  /\ inferenced_arr' = [set |-> TRUE, n |-> rbm_inference(Len(r.arr))]
    /\ UNCHANGED <<cycle_len, annealing_cycles, predicted_log_arr, generated_df_list,
                   params_arr, gen_list, pc, cyc, gen_count>>

Learn == \E t \in LearnTables : learn(t)

\* a row of np.empty that was never written, and a slot of [None] * cycles
Uninit == [filled |-> FALSE, arr |-> << >>]
None == [set |-> FALSE, df |-> << >>]

\* compose without the read of self.__inferenced_arr
ComposeBeginUnchecked ==
    /\ pc = "idle"
    /\ params_arr' = [c \in 1..annealing_cycles |-> [filled |-> FALSE, arr |-> << >>]]
    /\ gen_list' = [c \in 1..annealing_cycles |-> [set |-> FALSE, df |-> << >>]]
    /\ pc' = "loop"
    /\ cyc' = 0
    /\ last' = Call("compose", "running", 0, 0)
    /\ UNCHANGED <<cycle_len, annealing_cycles, midi_df, pitch_range, observed_n,
                   inferenced_arr, predicted_log_arr, generated_df_list, gen_count>>

\* compose, up to the loop: reading self.__inferenced_arr before learn has
\* set it raises AttributeError
ComposeBegin ==
    /\ pc = "idle"
    /\ IF ~Trained
       THEN /\ last' = Call("compose", "AttributeError", 0, 0)
            /\ UNCHANGED <<params_arr, gen_list, pc, cyc>>
       ELSE /\ params_arr' = [c \in 1..annealing_cycles |-> Uninit]
            /\ gen_list' = [c \in 1..annealing_cycles |-> None]
            /\ pc' = "loop"
            /\ cyc' = 0
            /\ last' = Call("compose", "running", 0, 0)
    /\ UNCHANGED <<cycle_len, annealing_cycles, midi_df, pitch_range, observed_n,
                   inferenced_arr, predicted_log_arr, generated_df_list, gen_count>>

\* one iteration of "for i in range(annealing_cycles)"
ComposeCycle ==
    /\ pc = "loop"
    /\ cyc < annealing_cycles
    /\ gen_count < MaxGenerate
    /\ \E sj \in StartJitter(Len(midi_df)), dj \in DurationJitter(Len(midi_df)) :
       \E vel \in velocity_samples(midi_df) :
         LET pit == twelve_tone_generate(Len(midi_df), DefaultOctave)[1] IN
         LET g == rbm_generate(midi_df, sj, dj, vel, pit)
             t == preprocess(g.df, cycle_len)
             e == IF g.err # "none" THEN g.err ELSE t.err
             test_arr == IF Len(t.arr) > observed_n THEN SubSeq(t.arr, 1, observed_n) ELSE t.arr
         IN /\ midi_df' = g.ref
            /\ gen_count' = gen_count + 1
            /\ IF e # "none"
               THEN /\ pc' = "idle"
                    /\ cyc' = 0
                    /\ last' = Call("compose", e, 0, 0)
                    /\ params_arr' = << >>
                    /\ gen_list' = << >>
               ELSE /\ gen_list' = [gen_list EXCEPT ![cyc + 1] = [set |-> TRUE, df |-> g.df]]
                    /\ params_arr' = IF Len(t.arr) < observed_n
                                     THEN params_arr
                                     ELSE [params_arr EXCEPT ![cyc + 1] = [filled |-> TRUE, arr |-> test_arr]]
                    /\ cyc' = cyc + 1
                    /\ UNCHANGED <<pc, last>>
    /\ UNCHANGED <<cycle_len, annealing_cycles, pitch_range, observed_n,
                   inferenced_arr, predicted_log_arr, generated_df_list>>

\* the annealing model: one record per cycle, in cycle order, with the index of
\* the cycle's row of params_arr (column 4) and its score (column 5)
annealing(cycles) ==
    {[c \in 1..cycles |-> [index |-> c, score |-> s[c]]] : s \in [1..cycles -> 0..MaxScore]}

\* predicted_log_arr[predicted_log_arr[:, 5] == predicted_log_arr[:, 5].min()][0][4]
opt_index(log) ==
    LET m == CHOOSE x \in {log[r].score : r \in 1..Len(log)} :
                 \A r \in 1..Len(log) : x <= log[r].score
        first == CHOOSE r \in 1..Len(log) :
                 /\ log[r].score = m
                 /\ \A q \in 1..(r - 1) : log[q].score # m
    IN log[first].index

\* opt_df["feature_pitch"] = opt_df["pitch"]; opt_df["pitch"] = opt_df["origin_pitch"]
restore_pitch(df) ==
    [i \in 1..Len(df) |->
        [f \in DOMAIN df[i] \cup {"feature_pitch"} |->
            IF f = "feature_pitch" THEN df[i].pitch
            ELSE IF f = "pitch" THEN df[i].origin_pitch ELSE df[i][f]]]

\* compose, after the loop
ComposeFinish ==
    /\ pc = "loop"
    /\ cyc = annealing_cycles
    /\ \E log \in annealing(annealing_cycles) :
         LET opt == opt_index(log)
         IN /\ predicted_log_arr' = log
            /\ generated_df_list' = [gen_list EXCEPT ![opt].df = restore_pitch(@)]
            /\ last' = Call("compose", "none", 0, opt)
    /\ pc' = "idle"
    /\ cyc' = 0
    /\ gen_list' = << >>
    /\ UNCHANGED <<cycle_len, annealing_cycles, midi_df, pitch_range, observed_n,
                   inferenced_arr, params_arr, gen_count>>

\* set_readonly, the setter of every property: raises TypeError and assigns
\* nothing.  val is what the attribute behind the property holds afterwards.
set_readonly_assigns(old, value) == [err |-> "none", val |-> value]

set_readonly(old, value) == [err |-> "TypeError", val |-> old]

SetterOps == {"set predicted_log_arr", "set generated_df_list"}

\* composer.predicted_log_arr = value
SetPredictedLogArr ==
    /\ pc = "idle"
    /\ LET r == set_readonly(predicted_log_arr, <<[index |-> 1, score |-> 0]>>)
       IN /\ predicted_log_arr' = r.val
          /\ last' = Call("set predicted_log_arr", r.err, 0, 0)
    /\ UNCHANGED <<cycle_len, annealing_cycles, midi_df, pitch_range, observed_n,
                   inferenced_arr, generated_df_list, params_arr, gen_list, pc, cyc,
                   gen_count>>

\* composer.generated_df_list = value
SetGeneratedDfList ==
    /\ pc = "idle"
    /\ LET r == set_readonly(generated_df_list, <<None>>)
       IN /\ generated_df_list' = r.val
          /\ last' = Call("set generated_df_list", r.err, 0, 0)
    /\ UNCHANGED <<cycle_len, annealing_cycles, midi_df, pitch_range, observed_n,
                   inferenced_arr, predicted_log_arr, params_arr, gen_list, pc, cyc,
                   gen_count>>



----------------------------------------------------------------------------
(* BarNoiseSampler *)

MaxTables == 2       \* tables of a corpus

Note(g, p, s, e) == [program |-> g, pitch |-> p, start |-> s, end |-> e]

\* the tables a corpus is made of; times are in half time units
BarCatalogue ==
    << <<Note(0, 3, 0, 8), Note(0, 2, 0, 8)>>,
       <<Note(0, 3, 2, 4), Note(0, 4, 0, 8)>>,
       <<Note(0, 3, 0, 8), Note(1, 3, 0, 8)>>,
       <<Note(1, 3, 0, 8), Note(1, 3, 2, 8)>>,
       <<Note(0, 0, 0, 8), Note(0, 3, 0, 8)>>,
       << >> >>

BarCorpora ==
    {[t \in DOMAIN ix |-> BarCatalogue[ix[t]]] :
        ix \in {f \in UNION {[1..m -> 1..Len(BarCatalogue)] : m \in 1..MaxTables} :
                  \A a, b \in DOMAIN f : a <= b => f[a] <= f[b]}}

BarConfigs == {BarConfig(1, 2, 2, 3, 5), BarConfig(2, 1, 2, 3, 5)}

\* the distinct programs of all tables
Programs(midi_df_list) ==
    UNION {{midi_df_list[t][r].program : r \in 1..Len(midi_df_list[t])} :
             t \in 1..Len(midi_df_list)}

Orders(S) == {o \in [1..Cardinality(S) -> S] : \A a, b \in DOMAIN o : a # b => o[a] # o[b]}

Dim(cfg) == cfg.max_pitch - cfg.min_pitch

\* np.zeros((batch_size, channel, seq_len, dim))
zeros(cfg, ch) ==
    [b \in 1..cfg.batch_size |-> [i \in 1..ch |->
        [s \in 1..cfg.seq_len |-> [j \in 1..Dim(cfg) |-> 0]]]]

\* arr[index] = 1 of a numpy array of length dim: a negative index counts from
\* the end, an index outside -dim..dim-1 raises IndexError.  Position j of the
\* array is element j + 1 here.
set_item(arr, index, dim) ==
    IF index >= dim \/ index < 0 - dim THEN [err |-> "IndexError", arr |-> arr]
    ELSE [err |-> "none",
          arr |-> [arr EXCEPT ![(IF index < 0 THEN index + dim ELSE index) + 1] = 1]]

RECURSIVE convert_rows(_, _, _)
convert_rows(df, cfg, acc) ==
    IF df = << >> \/ acc.err # "none" THEN acc
    ELSE convert_rows(Tail(df), cfg,
            IF Head(df).pitch < cfg.max_pitch - 1
            THEN set_item(acc.arr, Head(df).pitch - cfg.min_pitch, Dim(cfg))
            ELSE acc)

convert_into_feature(df, cfg) ==
    convert_rows(df, cfg, [err |-> "none", arr |-> [j \in 1..Dim(cfg) |-> 0]])

\* the selection with <= and >= in the place of < and >
select_bar_inclusive(df, row, seq, tf) ==
    SelectSeq(df, LAMBDA n : n.start <= row + seq * tf /\ n.end >= row + (seq + 1) * tf)

\* df = midi_df[midi_df.start < row + seq * time_fraction]
\* df = df[df.end > row + (seq + 1) * time_fraction]
select_bar(df, row, seq, tf) ==
    SelectSeq(df, LAMBDA n : n.start < row + seq * tf /\ n.end > row + (seq + 1) * tf)

\* np.random.uniform(low, high): a value of [low, high), of (high, low] when
\* high < low; low and high are whole time units, the draw any half unit
uniform(low, high) ==
    IF low < high THEN low..(high - 1)
    ELSE IF low = high THEN {low}
    ELSE (high + 1)..low

MinOf(S) == CHOOSE m \in S : \A x \in S : m <= x
MaxOf(S) == CHOOSE m \in S : \A x \in S : m >= x

BarGenerateBegin ==
    /\ bar_pc = "idle"
    /\ sampled_arr' = zeros(bar_cfg, channel)
    /\ bar_pc' = "loop"
    /\ bar_batch' = 1
    /\ bar_i' = 1
    /\ bar_draw' = NoDraw
    /\ bar_last' = [op |-> "generate", err |-> "running"]
    /\ UNCHANGED <<bar_cfg, bar_midi_df_list, program_list, channel>>

\* one iteration of the loop over batch and program_list
BarGenerateSlot ==
    /\ bar_pc = "loop"
    /\ bar_batch <= bar_cfg.batch_size
    /\ bar_i <= Len(program_list)
    /\ \E key \in 1..Len(bar_midi_df_list) :
         LET midi == SelectSeq(bar_midi_df_list[key],
                               LAMBDA n : n.program = program_list[bar_i])
             low == MinOf({midi[r].start : r \in 1..Len(midi)})
             high == MaxOf({midi[r].end : r \in 1..Len(midi)})
                       - bar_cfg.seq_len * bar_cfg.time_fraction
             next_i == IF bar_i = Len(program_list) THEN 1 ELSE bar_i + 1
             next_b == IF bar_i = Len(program_list) THEN bar_batch + 1 ELSE bar_batch
         IN IF Len(midi) < bar_cfg.seq_len
            THEN /\ bar_draw' = [batch |-> bar_batch, i |-> bar_i, key |-> key,
                                 row |-> 0, short |-> TRUE]
                 /\ bar_i' = next_i
                 /\ bar_batch' = next_b
                 /\ UNCHANGED <<sampled_arr, bar_pc, bar_last>>
            ELSE \E row \in uniform(low, high) :
                   LET f == [s \in 1..bar_cfg.seq_len |->
                               convert_into_feature(
                                 select_bar(midi, row, s - 1, bar_cfg.time_fraction), bar_cfg)]
                       failed == \E s \in 1..bar_cfg.seq_len : f[s].err # "none"
                   IN /\ bar_draw' = [batch |-> bar_batch, i |-> bar_i, key |-> key,
                                      row |-> row, short |-> FALSE]
                      /\ IF failed
                         THEN /\ sampled_arr' = << >>
                              /\ bar_pc' = "idle"
                              /\ bar_i' = 0
                              /\ bar_batch' = 0
                              /\ bar_last' = [op |-> "generate", err |-> "IndexError"]
                         ELSE /\ sampled_arr' = [sampled_arr EXCEPT ![bar_batch][bar_i] =
                                                   [s \in 1..bar_cfg.seq_len |-> f[s].arr]]
                              /\ bar_i' = next_i
                              /\ bar_batch' = next_b
                              /\ UNCHANGED <<bar_pc, bar_last>>
    /\ UNCHANGED <<bar_cfg, bar_midi_df_list, program_list, channel>>

\* return sampled_arr
BarGenerateReturn ==
    /\ bar_pc = "loop"
    /\ bar_batch > bar_cfg.batch_size \/ Len(program_list) = 0
    /\ bar_pc' = "idle"
    /\ bar_batch' = 0
    /\ bar_i' = 0
    /\ bar_last' = [op |-> "generate", err |-> "none"]
    /\ UNCHANGED <<bar_cfg, bar_midi_df_list, program_list, channel, sampled_arr, bar_draw>>

BarSetterOps == {"set channel", "set program_list"}

\* sampler.channel = value
BarSetChannel ==
    /\ bar_pc = "idle"
    /\ LET r == set_readonly(channel, channel + 1)
       IN /\ channel' = r.val
          /\ bar_last' = [op |-> "set channel", err |-> r.err]
    /\ UNCHANGED <<bar_cfg, bar_midi_df_list, program_list, sampled_arr,
                   bar_pc, bar_batch, bar_i, bar_draw>>

\* sampler.program_list = value
BarSetProgramList ==
    /\ bar_pc = "idle"
    /\ LET r == set_readonly(program_list, << >>)
       IN /\ program_list' = r.val
          /\ bar_last' = [op |-> "set program_list", err |-> r.err]
    /\ UNCHANGED <<bar_cfg, bar_midi_df_list, channel, sampled_arr,
                   bar_pc, bar_batch, bar_i, bar_draw>>

InitBar ==
    /\ ComposerIdle
    /\ pre_in = NoPre
    /\ pre_out = NoOut
    /\ gen_in = NoGenIn
    /\ gen_out = NoGenOut
    /\ \E corpus \in BarCorpora, cfg \in BarConfigs :
         \E order \in Orders(Programs(corpus)) : bar_init(corpus, cfg, order)

NextBar ==
    \/ (BarGenerateBegin /\ UNCHANGED <<composerVars, pureVars>>)
    \/ (BarGenerateSlot /\ UNCHANGED <<composerVars, pureVars>>)
    \/ (BarGenerateReturn /\ UNCHANGED <<composerVars, pureVars>>)
    \/ (BarSetChannel /\ UNCHANGED <<composerVars, pureVars>>)
    \/ (BarSetProgramList /\ UNCHANGED <<composerVars, pureVars>>)

SpecBar == InitBar /\ [][NextBar]_vars



----------------------------------------------------------------------------
(* A composer and a sampler side by side *)

Init ==
    /\ ComposerNew(CycleLen, AnnealingCycles)
    /\ bar_init(<<BarCatalogue[3]>>, BarConfig(1, 2, 2, 3, 5), <<0, 1>>)
    /\ pre_in = NoPre
    /\ pre_out = NoOut
    /\ gen_in = NoGenIn
    /\ gen_out = NoGenOut

Next ==
    \/ (Learn /\ UNCHANGED <<barVars, pureVars>>)
    \/ (ComposeBegin /\ UNCHANGED <<barVars, pureVars>>)
    \/ (ComposeCycle /\ UNCHANGED <<barVars, pureVars>>)
    \/ (ComposeFinish /\ UNCHANGED <<barVars, pureVars>>)
    \/ (SetPredictedLogArr /\ UNCHANGED <<barVars, pureVars>>)
    \/ (SetGeneratedDfList /\ UNCHANGED <<barVars, pureVars>>)
    \/ (BarSetChannel /\ UNCHANGED <<composerVars, pureVars>>)
    \/ (BarSetProgramList /\ UNCHANGED <<composerVars, pureVars>>)

Spec == Init /\ [][Next]_vars

----------------------------------------------------------------------------
(* Properties *)

ComposeDone == pc = "idle" /\ last.op = "compose" /\ last.err = "none"

Scored == {c \in 1..Len(params_arr) : params_arr[c].filled}

ScoreOf(c) == predicted_log_arr[c].score

\* C1: after a compose that returned, on a composer that learned at least one
\* window, the selected cycle is one whose windows
\* were written into params_arr, its score is the least score of those cycles,
\* and among the scored cycles of that score it has the lowest index.
SelectsBestScoredCycle ==
    (ComposeDone /\ observed_n >= 1) =>
        /\ last.opt \in Scored
        /\ \A c \in Scored :
             /\ ScoreOf(last.opt) <= ScoreOf(c)
             /\ ScoreOf(c) = ScoreOf(last.opt) => last.opt <= c

\* C2: a compose call on a composer no learn has completed on raises the
\* invalid-state error and changes nothing; the loop of compose is entered, and
\* compose returns, only on a trained composer; a compose that returns leaves
\* the composer composed, and compose can be called on it again.
ComposeRequiresLearn ==
    [][ /\ (pc = "idle" /\ last'.op = "compose" /\ ~Trained) =>
              /\ last'.err = "AttributeError"
              /\ pc' = "idle"
              /\ UNCHANGED <<midi_df, observed_n, inferenced_arr, predicted_log_arr,
                             generated_df_list, pitch_range>>
        /\ (pc = "idle" /\ pc' = "loop") => Trained
        /\ (pc = "loop" /\ pc' = "idle" /\ last'.err = "none") =>
              /\ Trained
              /\ Trained'
              /\ Composed'
      ]_vars

\* C2, reached: compose has failed on a composer whose only learn failed
ComposeBeforeLearnFailed ==
    /\ last.op = "compose"
    /\ last.err = "AttributeError"
    /\ ~Trained
    /\ pitch_range # <<NaN, NaN>>

\* C3: no iteration of the loop of compose changes the learned table.
GenerateLeavesReference == [][pc = "loop" => midi_df' = midi_df]_vars

\* C4: on a composer that learned at least one window, compose is never aborted by a candidate with too few rows; every cycle
\* leaves its candidate in the list, and the selected cycle is a scored one.
ShortCandidateIsSkipped ==
    /\ ~(observed_n >= 1 /\ last.op = "compose"
            /\ last.err = "ValueError: negative dimensions")
    /\ (ComposeDone /\ observed_n >= 1) =>
          /\ Len(generated_df_list) = annealing_cycles
          /\ \A c \in 1..annealing_cycles : generated_df_list[c].set
          /\ last.opt \in Scored

\* C7: learn on a table of fewer than cycle_len + 1 rows fails, and a composer
\* that was untrained stays untrained.
LearnRejectsShortTable ==
    [][ (last'.op = "learn" /\ last'.rows < cycle_len + 1) =>
            /\ last'.err # "none"
            /\ ~Trained => ~Trained'
      ]_vars

\* C10: an assignment to predicted_log_arr, generated_df_list, channel or
\* program_list raises the immutable-field error, and every one of the four
\* reads as it did before.
ReadonlyProperties ==
    [][ /\ last'.op \in SetterOps =>
              /\ last'.err = "TypeError"
              /\ UNCHANGED <<predicted_log_arr, generated_df_list>>
        /\ bar_last'.op \in BarSetterOps =>
              /\ bar_last'.err = "TypeError"
              /\ UNCHANGED <<channel, program_list>>
      ]_vars

\* C10, reached: an assignment to a property of a composer that has composed
\* and one to a property of the sampler have both been tried
SetterTried ==
    /\ last.op \in SetterOps
    /\ bar_last.op \in BarSetterOps
    /\ Composed


\* the slot the last iteration of generate worked on
SlotWritten ==
    bar_pc = "loop" /\ bar_draw.batch >= 1 /\ ~bar_draw.short

SlotTable ==
    SelectSeq(bar_midi_df_list[bar_draw.key],
              LAMBDA n : n.program = program_list[bar_draw.i])

SlotNotes == {SlotTable[r] : r \in 1..Len(SlotTable)}

\* start and end of sub-interval s (1 .. seq_len) of the last draw
SubStart(s) == bar_draw.row + (s - 1) * bar_cfg.time_fraction
SubEnd(s) == bar_draw.row + s * bar_cfg.time_fraction

SlotVector(s) == sampled_arr[bar_draw.batch][bar_draw.i][s]

Returned == bar_pc = "idle" /\ bar_last.op = "generate" /\ bar_last.err = "none"

\* C9: the channel count is the number of distinct programs of the corpus in
\* every state; no call of generate ends in an error; the tensor generate
\* returns has the shape (batch_size, channel, seq_len, max_pitch - min_pitch)
\* and entries 0 or 1; a slot whose table has fewer than seq_len rows of the
\* program is left all zero.
TensorShapeAndBits ==
    /\ channel = Cardinality(Programs(bar_midi_df_list))
    /\ bar_last.op = "generate" => bar_last.err \in {"running", "none"}
    /\ Returned =>
          /\ Len(sampled_arr) = bar_cfg.batch_size
          /\ \A b \in 1..Len(sampled_arr) :
               /\ Len(sampled_arr[b]) = channel
               /\ \A i \in 1..Len(sampled_arr[b]) :
                    /\ Len(sampled_arr[b][i]) = bar_cfg.seq_len
                    /\ \A s \in 1..Len(sampled_arr[b][i]) :
                         /\ Len(sampled_arr[b][i][s]) = Dim(bar_cfg)
                         /\ \A j \in 1..Len(sampled_arr[b][i][s]) :
                              sampled_arr[b][i][s][j] \in {0, 1}
    /\ (bar_draw.short /\ sampled_arr # << >>) =>
          \A s \in 1..bar_cfg.seq_len : \A j \in 1..Dim(bar_cfg) :
              SlotVector(s)[j] = 0

FiniteTable(df) == \A i \in 1..Len(df) : \A f \in DOMAIN df[i] : df[i][f].k = "fin"

\* C5: a candidate generated from a table of finite values has the rows of the
\* table, starts that are not negative and 0 for the first row, durations
\* above 0, end = start + duration in every row, and rows in the order of
\* (start, end).
CandidateWellFormed ==
    (gen_out.called /\ gen_out.err = "none" /\ FiniteTable(gen_in.table)) =>
        LET df == gen_out.df
        IN /\ Len(df) = Len(gen_in.table)
           /\ \A i \in 1..Len(df) :
                /\ ~Lt(df[i].start, Fin(0))
                /\ Lt(Fin(0), df[i].duration)
                /\ df[i].end = Add(df[i].start, df[i].duration)
           /\ \E i \in 1..Len(df) : df[i].start = Fin(0)
           /\ \A i, j \in 1..Len(df) : i < j => ~RowLt(df[j], df[i])

FeatureNames == <<"pitch", "start", "duration", "velocity">>

\* p < q of two fractions
QLt(p, q) == p.n * q.d < q.n * p.d

\* the table __preprocess works on, and the value of feature f of row j of
\* window w in it
PreTable == dropna(pre_in.table)
PreValue(w, j, f) == PreTable[w + j - 1][FeatureNames[f]]

\* the windows have the shape (rows - cycle_len, cycle_len, 4)
WindowShape ==
    /\ pre_out.err = "none"
    /\ Len(pre_out.arr) = Len(PreTable) - pre_in.cycle_len
    /\ \A w \in 1..Len(pre_out.arr) :
         /\ Len(pre_out.arr[w]) = pre_in.cycle_len
         /\ \A j \in 1..Len(pre_out.arr[w]) : Len(pre_out.arr[w][j]) = 4

\* feature f of the windows is in [0, 1], is 0 at the least value of the
\* column and 1 at the greatest, and follows the order of the rows' values
FeatureInUnitInterval(f) ==
    LET col == Column(PreTable, FeatureNames[f])
    IN \A w \in 1..Len(pre_out.arr) : \A j \in 1..pre_in.cycle_len :
         LET q == pre_out.arr[w][j][f]
         IN /\ InUnitInterval(q)
            /\ q.n = 0 <=> PreValue(w, j, f) = ColMin(col)
            /\ q.n = q.d <=> PreValue(w, j, f) = ColMax(col)
            /\ \A w2 \in 1..Len(pre_out.arr) : \A j2 \in 1..pre_in.cycle_len :
                 Lt(PreValue(w, j, f), PreValue(w2, j2, f)) =>
                    /\ InUnitInterval(pre_out.arr[w2][j2][f])
                    /\ QLt(q, pre_out.arr[w2][j2][f])

\* C6, as claimed: of a table with more rows than cycle_len, a constant column
\* or not, the preprocessor returns rows - cycle_len windows of cycle_len rows
\* of 4 features, window k holding the normalised features of rows k .. k +
\* cycle_len - 1, and every value lies in [0, 1].
WindowsInUnitInterval ==
    (pre_out.called /\ NoMissing(pre_in.table) /\ Len(pre_in.table) > pre_in.cycle_len) =>
        /\ WindowShape
        /\ \A f \in 1..4 : FeatureInUnitInterval(f)

\* C6, amended: of a table of finite values with more than cycle_len rows left
\* once the rows with a missing value are dropped, the preprocessor returns
\* (rows left) - cycle_len windows of cycle_len rows of 4 features, window k
\* holding the normalised features of rows k .. k + cycle_len - 1; the values
\* of a feature lie in [0, 1] when its column is not constant, and are all NaN
\* when it is.
WindowsNormalised ==
    (pre_out.called /\ Len(PreTable) > pre_in.cycle_len) =>
        /\ WindowShape
        /\ \A f \in 1..4 :
             IF Cardinality(Column(PreTable, FeatureNames[f])) = 1
             THEN \A w \in 1..Len(pre_out.arr) : \A j \in 1..pre_in.cycle_len :
                      pre_out.arr[w][j][f] = QNaN
             ELSE FeatureInUnitInterval(f)

\* C6, reached: two windows of a table of three rows, one of them dropped
\* for its missing start or none, with a constant column and a value strictly
\* between 0 and 1 in another
WindowsOfConstantColumn ==
    /\ pre_out.called
    /\ pre_out.err = "none"
    /\ Len(pre_out.arr) = 2
    /\ \E f \in 1..4 : pre_out.arr[1][1][f] = QNaN
    /\ \E f \in 1..4 : \E w \in 1..2 : pre_out.arr[w][1][f] = Frac(1, 2)

====
